---- MODULE Spec2Model ----
(***************************************************************************)
(* Location service (POST /location, port 3003) together with the geofence *)
(* service it queries (POST/GET /geofences, port 3002).                    *)
(*                                                                         *)
(* Node.js runs each handler on one thread: code between two awaits is one *)
(* indivisible step.  POST /location therefore has two steps, split at the *)
(* awaited axios.get: the part up to sending the GET, and the continuation *)
(* that runs once the GET has been answered (or has failed).               *)
(*                                                                         *)
(* Coordinates are [latitude, longitude] in whole degrees.  All modelled   *)
(* coordinates lie on the prime meridian, where the great-circle distance  *)
(* computed by turf.distance is proportional to the difference of the      *)
(* latitudes; lengths (distances and radii) are measured in the length of  *)
(* one degree of latitude.                                                 *)
(*                                                                         *)
(* The user service (POST /register, port 3001) is a process of its own;   *)
(* SpecReg is that service under concurrent registrations.                 *)
(*                                                                         *)
(* Spec is the service under concurrent reports of two users.  SpecSeq is  *)
(* one user reporting sequentially, with the wider set of inputs: points   *)
(* out of range and stored fences whose center is not a pair.              *)
(***************************************************************************)
EXTENDS Integers, Sequences, FiniteSets, TLC

\* ---- bounds of the model ----
\* requests of Spec (all may overlap), requests of SpecSeq, stored fences
MaxReqs == 2
MaxSeqReqs == 4
MaxFences == 2
\* latitudes and radii of SpecGeo
MaxGeoLat == 3
MaxGeoRadius == 2
\* registrations of SpecReg (all may overlap)
MaxRegs == 2

\* ---- inputs ----
\* req.user.id, as verified by authMiddleware
Users == {1, 2}

\* let fenceId = null
NoFence == 0

\* A request body's "location": absent, a non-array value, or an array.
AbsentLocation == [kind |-> "absent", elems |-> <<>>]
ScalarLocation == [kind |-> "scalar", elems |-> <<>>]
ArrayLocation(e) == [kind |-> "array", elems |-> e]

\* one degree beyond the pole: outside [-90, 90]
OutOfRangeLat == 90 + 1

MalformedLocations == {AbsentLocation, ScalarLocation, ArrayLocation(<<0>>)}
Locations ==
    MalformedLocations \cup {ArrayLocation(<<lat, 0>>) : lat \in {1, 2}}
SeqLocations == Locations \cup {ArrayLocation(<<OutOfRangeLat, 0>>)}

\* the body of POST /geofences; a center is a pair, or (SeqCenters) an array
\* with a missing element
Centers == {<<1, 0>>, <<3, 0>>}
SeqCenters == Centers \cup {<<0>>}
Names == {"", "home"}
Radii == {0, 1}

\* SpecGeo: points and centers at every latitude 0..MaxGeoLat, every radius
GeoLocations == {ArrayLocation(<<lat, 0>>) : lat \in 0..MaxGeoLat}
GeoCenters == {<<lat, 0>> : lat \in 0..MaxGeoLat}
GeoRadii == 0..MaxGeoRadius

\* the body of POST /register: "" is a missing username; a password is
\* missing, a string, or another value (a number)
Usernames == {"", "ann", "bob"}
Passwords == {"absent", "string", "number"}

VARIABLES
    userStates,       \* location service: userId -> "inside" | "outside"
    geofences,        \* geofence service: the array of fences
    fenceIdCounter,   \* geofence service: next fence id
    reqs,             \* the POST /location requests and where each stands
    users,            \* user service: the array of registered users
    regs,             \* the POST /register requests and where each stands
    writes            \* history: the state updates of POST /location, in order:
                      \* the request, the status recorded before and after the
                      \* update, the status the handler read, the point
                      \* reported, the fence it matched, and the requests
                      \* answered before this one arrived

vars == <<userStates, geofences, fenceIdCounter, reqs, users, regs, writes>>

NoResult == [code |-> 0, trigger |-> "", status |-> "", fenceId |-> NoFence]
\* a request that has not arrived; a handler's locals are gone once it has
\* answered.  answered is history: the requests that had been answered when
\* this one arrived.
IdleReq == [pc |-> "idle", userId |-> 0, location |-> AbsentLocation,
            data |-> <<>>, result |-> NoResult, answered |-> {}]
Answered(result) == [IdleReq EXCEPT !.pc = "done", !.result = result]
Reqs == DOMAIN reqs
InFlight == {r \in Reqs : reqs[r].pc \in {"awaiting", "fetched"}}

\* a registration that has not arrived
NoResponse == [code |-> 0, message |-> "", id |-> 0, username |-> ""]
IdleReg == [pc |-> "idle", username |-> "", password |-> "absent",
            response |-> NoResponse]
Regs == DOMAIN regs

Init ==
    /\ userStates = <<>>
    /\ geofences = <<>>
    /\ fenceIdCounter = 1
    /\ reqs = [r \in 1..MaxReqs |-> IdleReq]
    /\ writes = <<>>
    /\ users = <<>>
    /\ regs = [k \in 1..MaxRegs |-> IdleReg]

Abs(x) == IF x < 0 THEN -x ELSE x

\* ---- geofence service ----

\* POST /geofences: !name || !center || !radius answers 400 (an array center
\* is never falsy); otherwise the fence is appended
PostGeofences(userId, name, center, radius) ==
    /\ Len(geofences) < MaxFences
    /\ IF name = "" \/ radius = 0
       THEN UNCHANGED <<geofences, fenceIdCounter>>
       ELSE /\ geofences' = Append(geofences,
                    [id |-> fenceIdCounter, userId |-> userId, name |-> name,
                     center |-> center, radius |-> radius])
            /\ fenceIdCounter' = fenceIdCounter + 1
    /\ UNCHANGED <<userStates, reqs, writes, users, regs>>

\* mutant: the filter on the owner is missing
UserFencesAll(userId) == geofences

\* geofences.filter(fence => fence.userId === userId)
UserFences(userId) == SelectSeq(geofences, LAMBDA fence : fence.userId = userId)

\* GET /geofences, answering the axios.get of request r
GetGeofences(r) ==
    /\ reqs[r].pc = "awaiting"
    /\ reqs' = [reqs EXCEPT ![r].pc = "fetched",
                            ![r].data = UserFences(reqs[r].userId)]
    /\ UNCHANGED <<userStates, geofences, fenceIdCounter, writes, users, regs>>

\* ---- location service ----

\* !location || !Array.isArray(location) || location.length !== 2
InvalidLocation(location) ==
    \/ location.kind = "absent"
    \/ location.kind # "array"
    \/ Len(location.elems) # 2

\* POST /location up to the awaited axios.get
PostLocation(r, userId, location) ==
    /\ reqs[r].pc = "idle"
    /\ \A q \in Reqs : q < r => reqs[q].pc # "idle"
    /\ IF InvalidLocation(location)
       THEN reqs' = [reqs EXCEPT ![r] =
                        Answered([NoResult EXCEPT !.code = 400])]
       ELSE reqs' = [reqs EXCEPT ![r] = [IdleReq EXCEPT
                        !.pc = "awaiting", !.userId = userId,
                        !.location = location,
                        !.answered = {q \in Reqs : reqs[q].pc = "done"}]]
    /\ UNCHANGED <<userStates, geofences, fenceIdCounter, writes, users, regs>>

\* turf.point([c[1], c[0]]): [longitude, latitude]; throws unless both are numbers
CanPoint(c) == Len(c) = 2
TurfPoint(c) == <<c[2], c[1]>>

\* turf.distance of two turf points on one meridian
Distance(p, q) == Abs(p[2] - q[2])

\* mutant: the boundary is excluded
WithinOpenDisk(userPoint, fence) ==
    Distance(userPoint, TurfPoint(fence.center)) < fence.radius

\* distance <= fence.radius
Within(userPoint, fence) ==
    Distance(userPoint, TurfPoint(fence.center)) <= fence.radius

\* mutant: the loop has no break, the last match wins
RECURSIVE FenceLoopNoBreak(_, _)
FenceLoopNoBreak(fences, userPoint) ==
    IF fences = <<>>
    THEN [threw |-> FALSE, isInsideAnyFence |-> FALSE, fenceId |-> NoFence]
    ELSE LET fence == Head(fences)
             rest == FenceLoopNoBreak(Tail(fences), userPoint)
         IN IF ~CanPoint(fence.center) \/ rest.threw
            THEN [threw |-> TRUE, isInsideAnyFence |-> FALSE, fenceId |-> NoFence]
            ELSE IF rest.isInsideAnyFence THEN rest
            ELSE IF Within(userPoint, fence)
            THEN [threw |-> FALSE, isInsideAnyFence |-> TRUE, fenceId |-> fence.id]
            ELSE rest

\* mutant: a list of fences without a match (an empty one too) is an error
RECURSIVE FenceLoopNoMatchThrows(_, _)
FenceLoopNoMatchThrows(fences, userPoint) ==
    IF fences = <<>>
    THEN [threw |-> TRUE, isInsideAnyFence |-> FALSE, fenceId |-> NoFence]
    ELSE LET fence == Head(fences) IN
         IF ~CanPoint(fence.center)
         THEN [threw |-> TRUE, isInsideAnyFence |-> FALSE, fenceId |-> NoFence]
         ELSE IF Within(userPoint, fence)
         THEN [threw |-> FALSE, isInsideAnyFence |-> TRUE, fenceId |-> fence.id]
         ELSE FenceLoopNoMatchThrows(Tail(fences), userPoint)

\* the loop over the fences: the first match ends it, a malformed center throws
RECURSIVE FenceLoop(_, _)
FenceLoop(fences, userPoint) ==
    IF fences = <<>>
    THEN [threw |-> FALSE, isInsideAnyFence |-> FALSE, fenceId |-> NoFence]
    ELSE LET fence == Head(fences) IN
         IF ~CanPoint(fence.center)
         THEN [threw |-> TRUE, isInsideAnyFence |-> FALSE, fenceId |-> NoFence]
         ELSE IF Within(userPoint, fence)
         THEN [threw |-> FALSE, isInsideAnyFence |-> TRUE, fenceId |-> fence.id]
         ELSE FenceLoop(Tail(fences), userPoint)

\* isInsideAnyFence ? "inside" : "outside"
CurrentStatus(isInsideAnyFence) == IF isInsideAnyFence THEN "inside" ELSE "outside"

\* mutant: the previous status is not looked up
PreviousStatusForgotten(userId) == "unknown"

\* mutant: the status is read too early, before the user's latest update
PreviousStatusStale(userId) ==
    LET mine == {i \in DOMAIN writes : writes[i].userId = userId}
    IN IF mine = {} THEN "unknown"
       ELSE writes[CHOOSE i \in mine : \A j \in mine : j <= i].before

\* userStates[userId] || "unknown"
PreviousStatus(userId) ==
    IF userId \in DOMAIN userStates THEN userStates[userId] ELSE "unknown"

\* mutant: "enter" whenever the point is inside, whatever the previous status
TriggerEnterWheneverInside(currentStatus, previousStatus) ==
    IF currentStatus = "inside" THEN "enter"
    ELSE IF currentStatus = "outside" /\ previousStatus = "inside" THEN "exit"
    ELSE "none"

\* mutant: "exit" whenever the point is outside, whatever the previous status
TriggerExitWheneverOutside(currentStatus, previousStatus) ==
    IF currentStatus = "inside" /\ previousStatus # "inside" THEN "enter"
    ELSE IF currentStatus = "outside" THEN "exit"
    ELSE "none"

\* mutant: the first report of a user outside every fence counts as an exit
TriggerExitFromUnknown(currentStatus, previousStatus) ==
    IF currentStatus = "inside" /\ previousStatus # "inside" THEN "enter"
    ELSE IF currentStatus = "outside" /\ previousStatus # "outside" THEN "exit"
    ELSE "none"

\* the trigger of a report
Trigger(currentStatus, previousStatus) ==
    IF currentStatus = "inside" /\ previousStatus # "inside" THEN "enter"
    ELSE IF currentStatus = "outside" /\ previousStatus = "inside" THEN "exit"
    ELSE "none"

\* mutant: only "inside" is recorded
SetUserStateInsideOnly(userId, currentStatus) ==
    IF currentStatus = "inside"
    THEN [u \in DOMAIN userStates \cup {userId} |->
             IF u = userId THEN currentStatus ELSE userStates[u]]
    ELSE userStates

\* mutant: a recorded status is never overwritten
SetUserStateOnce(userId, currentStatus) ==
    IF userId \in DOMAIN userStates
    THEN userStates
    ELSE [u \in DOMAIN userStates \cup {userId} |->
             IF u = userId THEN currentStatus ELSE userStates[u]]

\* mutant: a user who is outside is removed from the record
SetUserStateDeleteOutside(userId, currentStatus) ==
    IF currentStatus = "outside"
    THEN [u \in DOMAIN userStates \ {userId} |-> userStates[u]]
    ELSE [u \in DOMAIN userStates \cup {userId} |->
             IF u = userId THEN currentStatus ELSE userStates[u]]

\* mutant: one status is recorded for all users
SetUserStateAllUsers(userId, currentStatus) ==
    [u \in DOMAIN userStates \cup {userId} |-> currentStatus]

\* userStates[userId] = currentStatus
SetUserState(userId, currentStatus) ==
    [u \in DOMAIN userStates \cup {userId} |->
        IF u = userId THEN currentStatus ELSE userStates[u]]

\* mutant: the matched fence is returned whatever the trigger
ResponseFenceIdAlways(trigger, fenceId) == fenceId

\* fenceId: trigger === "enter" ? fenceId : null
ResponseFenceId(trigger, fenceId) == IF trigger = "enter" THEN fenceId ELSE NoFence

\* mutant: a failed lookup is handled as an empty list of fences
LookupFailsOpen(r) ==
    /\ reqs[r].pc = "awaiting"
    /\ userStates' = [u \in DOMAIN userStates \cup {reqs[r].userId} |->
                        IF u = reqs[r].userId THEN "outside" ELSE userStates[u]]
    /\ reqs' = [reqs EXCEPT ![r] = Answered(
                    [code |-> 200, trigger |-> "none", status |-> "outside",
                     fenceId |-> NoFence])]
    /\ UNCHANGED <<geofences, fenceIdCounter, writes, users, regs>>

\* the axios.get is rejected (the geofence service is down, or answers 401):
\* the catch block answers 500
LookupFails(r) ==
    /\ reqs[r].pc = "awaiting"
    /\ reqs' = [reqs EXCEPT ![r] = Answered([NoResult EXCEPT !.code = 500])]
    /\ UNCHANGED <<userStates, geofences, fenceIdCounter, writes, users, regs>>

\* POST /location from the answer of the axios.get to the response
LocationResume(r) ==
    /\ reqs[r].pc = "fetched"
    /\ LET userId == reqs[r].userId
           userPoint == TurfPoint(reqs[r].location.elems)
           loop == FenceLoop(reqs[r].data, userPoint)
           currentStatus == CurrentStatus(loop.isInsideAnyFence)
           previousStatus == PreviousStatus(userId)
           trigger == Trigger(currentStatus, previousStatus)
       IN IF loop.threw
          THEN /\ reqs' = [reqs EXCEPT ![r] =
                              Answered([NoResult EXCEPT !.code = 500])]
               /\ UNCHANGED <<userStates, writes>>
          ELSE /\ userStates' = SetUserState(userId, currentStatus)
               /\ reqs' = [reqs EXCEPT ![r] = Answered(
                                 [code |-> 200, trigger |-> trigger,
                                  status |-> currentStatus,
                                  fenceId |-> ResponseFenceId(trigger, loop.fenceId)])]
               /\ writes' = Append(writes,
                      [req |-> r, userId |-> userId,
                       before |-> IF userId \in DOMAIN userStates
                                  THEN userStates[userId] ELSE "unknown",
                       read |-> previousStatus,
                       point |-> reqs[r].location.elems,
                       answered |-> reqs[r].answered,
                       matched |-> loop.fenceId,
                       after |-> IF userId \in DOMAIN userStates'
                                 THEN userStates'[userId] ELSE "unknown"])
    /\ UNCHANGED <<geofences, fenceIdCounter, users, regs>>

Next ==
    \/ \E u \in Users, n \in Names, c \in Centers, rad \in Radii :
          PostGeofences(u, n, c, rad)
    \/ \E r \in Reqs : GetGeofences(r)
    \/ \E r \in Reqs, u \in Users, l \in Locations : PostLocation(r, u, l)
    \/ \E r \in Reqs : LookupFails(r)
    \/ \E r \in Reqs : LocationResume(r)

Spec == Init /\ [][Next]_vars

\* The event loop runs the continuation of a handler once its awaited promise
\* has settled.  Whether and when the geofence service answers, or the GET
\* fails, is up to the network and that service: the axios.get is given no
\* timeout, so nothing in the handler settles the promise by itself.
\* ---- user service ----

\* POST /register up to the awaited bcrypt.genSalt
Register(k, username, password) ==
    /\ regs[k].pc = "idle"
    /\ \A q \in Regs : q < k => regs[q].pc # "idle"
    /\ IF username = "" \/ password = "absent"
       THEN regs' = [regs EXCEPT ![k] = [IdleReg EXCEPT !.pc = "done",
                        !.response = [NoResponse EXCEPT !.code = 400,
                            !.message = "Please provide username and password"]]]
       ELSE IF \E i \in DOMAIN users : users[i].username = username
       THEN regs' = [regs EXCEPT ![k] = [IdleReg EXCEPT !.pc = "done",
                        !.response = [NoResponse EXCEPT !.code = 400,
                            !.message = "Username already taken"]]]
       ELSE regs' = [regs EXCEPT ![k] = [IdleReg EXCEPT !.pc = "salting",
                        !.username = username, !.password = password]]
    /\ UNCHANGED <<userStates, geofences, fenceIdCounter, reqs, writes, users>>

\* bcrypt.genSalt has resolved: bcrypt.hash is called and awaited
RegisterSalted(k) ==
    /\ regs[k].pc = "salting"
    /\ regs' = [regs EXCEPT ![k].pc = "hashing"]
    /\ UNCHANGED <<userStates, geofences, fenceIdCounter, reqs, writes, users>>

\* bcrypt.hash has settled: it rejects a password that is not a string (the
\* catch answers 500); otherwise the user is pushed and 201 is answered
RegisterHashed(k) ==
    /\ regs[k].pc = "hashing"
    /\ IF regs[k].password # "string"
       THEN /\ regs' = [regs EXCEPT ![k] = [IdleReg EXCEPT !.pc = "done",
                           !.response = [NoResponse EXCEPT !.code = 500,
                               !.message = "Server error"]]]
            /\ UNCHANGED users
       ELSE /\ users' = Append(users, [id |-> Len(users) + 1,
                                       username |-> regs[k].username,
                                       password |-> "hashed"])
            /\ regs' = [regs EXCEPT ![k] = [IdleReg EXCEPT !.pc = "done",
                           !.response = [NoResponse EXCEPT !.code = 201,
                               !.id = Len(users) + 1,
                               !.username = regs[k].username]]]
    /\ UNCHANGED <<userStates, geofences, fenceIdCounter, reqs, writes>>

NextReg ==
    \/ \E k \in Regs, n \in Usernames, pw \in Passwords : Register(k, n, pw)
    \/ \E k \in Regs : RegisterSalted(k)
    \/ \E k \in Regs : RegisterHashed(k)

SpecReg == Init /\ [][NextReg]_vars

SpecFair == Spec /\ \A r \in 1..MaxReqs : WF_vars(LocationResume(r))

\* ---- one user reporting sequentially: each report is answered before the next ----
InitSeq ==
    /\ userStates = <<>>
    /\ geofences = <<>>
    /\ fenceIdCounter = 1
    /\ reqs = [r \in 1..MaxSeqReqs |-> IdleReq]
    /\ writes = <<>>
    /\ users = <<>>
    /\ regs = [k \in 1..MaxRegs |-> IdleReg]

SeqUser == CHOOSE u \in Users : \A v \in Users : u <= v

NextSeq ==
    \/ \E n \in Names, c \in SeqCenters, rad \in Radii :
          PostGeofences(SeqUser, n, c, rad)
    \/ \E r \in Reqs : GetGeofences(r)
    \/ \E r \in Reqs, l \in SeqLocations :
          InFlight = {} /\ PostLocation(r, SeqUser, l)
    \/ \E r \in Reqs : LookupFails(r)
    \/ \E r \in Reqs : LocationResume(r)

SpecSeq == InitSeq /\ [][NextSeq]_vars

\* ---- one report of one user against fences of every center and radius ----
InitGeo ==
    /\ userStates = <<>>
    /\ geofences = <<>>
    /\ fenceIdCounter = 1
    /\ reqs = [r \in {1} |-> IdleReq]
    /\ writes = <<>>
    /\ users = <<>>
    /\ regs = [k \in 1..MaxRegs |-> IdleReg]

NextGeo ==
    \/ \E n \in Names, c \in GeoCenters, rad \in GeoRadii :
          PostGeofences(SeqUser, n, c, rad)
    \/ \E r \in Reqs : GetGeofences(r)
    \/ \E r \in Reqs, l \in GeoLocations : PostLocation(r, SeqUser, l)
    \/ \E r \in Reqs : LookupFails(r)
    \/ \E r \in Reqs : LocationResume(r)

SpecGeo == InitGeo /\ [][NextGeo]_vars

\* ---- properties ----

\* request r was answered 200 with a TransitionResult
Succeeded(r) == reqs[r].pc = "done" /\ reqs[r].result.code = 200
\* the state updates made by request r
UpdatesOf(r) == {i \in DOMAIN writes : writes[i].req = r}
\* the status recorded for a user
Recorded(states, u) == IF u \in DOMAIN states THEN states[u] ELSE "unknown"
\* request r is answered in this step
Completes(r) == reqs[r].pc # "done" /\ reqs'[r].pc = "done"
\* a fence whose center is a pair contains the point [latitude, longitude]
Contains(fence, point) ==
    /\ Len(fence.center) = 2
    /\ LET d == fence.center[1] - point[1]
       IN d <= fence.radius /\ -d <= fence.radius

\* C1: a call that returns trigger "enter" found the user's recorded status
\* "outside" or "unknown" (not "inside") and wrote "inside".
C1_EnterTransition ==
    \A r \in Reqs :
        Succeeded(r) /\ reqs[r].result.trigger = "enter" =>
            /\ UpdatesOf(r) # {}
            /\ \A i \in UpdatesOf(r) :
                  /\ writes[i].before \in {"outside", "unknown"}
                  /\ writes[i].after = "inside"

C1_Witness ==
    \E r \in Reqs :
        /\ Succeeded(r) /\ reqs[r].result.trigger = "enter"
        /\ \E i \in UpdatesOf(r) : writes[i].before = "outside"

\* C2: a call that returns trigger "exit" found the user's recorded status
\* "inside" and wrote "outside".
C2_ExitTransition ==
    \A r \in Reqs :
        Succeeded(r) /\ reqs[r].result.trigger = "exit" =>
            /\ UpdatesOf(r) # {}
            /\ \A i \in UpdatesOf(r) :
                  /\ writes[i].before = "inside"
                  /\ writes[i].after = "outside"

C2_Witness ==
    \E r \in Reqs :
        /\ Succeeded(r) /\ reqs[r].result.trigger = "exit"
        /\ \E i \in UpdatesOf(r) : writes[i].before = "inside"

\* C3: every update that is neither (not inside -> inside) nor
\* (inside -> outside) is answered with trigger "none": unknown -> outside,
\* outside -> outside, and inside -> inside whichever fence matched.
C3_OtherTransitionsNone ==
    \A i \in DOMAIN writes :
        LET b == writes[i].before
            a == writes[i].after
        IN ~(b # "inside" /\ a = "inside") /\ ~(b = "inside" /\ a = "outside") =>
              /\ Succeeded(writes[i].req)
              /\ reqs[writes[i].req].result.trigger = "none"
              /\ (b = "unknown" => reqs[writes[i].req].result.status = "outside")

\* a report inside a fence other than the one matched by the user's previous
\* report, answered "none"
C3_Witness ==
    /\ \E i, j \in DOMAIN writes :
          /\ i < j /\ writes[i].userId = writes[j].userId
          /\ writes[i].after = "inside"
          /\ writes[j].before = "inside" /\ writes[j].after = "inside"
          /\ writes[i].matched # writes[j].matched
          /\ reqs[writes[j].req].result.trigger = "none"

\* C4: the status a successful call returns is the status that call wrote to
\* userStates; every successful call writes once, and every write is returned.
C4_StatusIsWritten ==
    /\ \A r \in Reqs :
          Succeeded(r) =>
              /\ Cardinality(UpdatesOf(r)) = 1
              /\ \A i \in UpdatesOf(r) : writes[i].after = reqs[r].result.status
    /\ \A i \in DOMAIN writes :
          /\ Succeeded(writes[i].req)
          /\ reqs[writes[i].req].result.status = writes[i].after
    /\ \A u \in Users :
          Recorded(userStates, u) # "unknown" =>
              \E i \in DOMAIN writes : writes[i].userId = u

C4_Witness ==
    \E r, q \in Reqs :
        /\ Succeeded(r) /\ reqs[r].result.status = "inside"
        /\ Succeeded(q) /\ reqs[q].result.status = "outside"
        /\ \E i \in UpdatesOf(q) : writes[i].before = "unknown"

\* C5: when the fence lookup fails the call ends in an error, reports no
\* trigger, and leaves the recorded state of every user as it was.
C5_LookupFailureNoMutation ==
    [][\A r \in Reqs :
          reqs[r].pc = "awaiting" /\ reqs'[r].pc = "done" =>
              /\ reqs'[r].result.code = 500
              /\ reqs'[r].result.trigger = ""
              /\ reqs'[r].result.status = ""
              /\ userStates' = userStates
              /\ writes' = writes]_vars

\* a call failed although no stored fence is malformed, so its lookup failed,
\* while the user's recorded state is still "inside"
C5_Witness ==
    /\ \E r \in Reqs : reqs[r].pc = "done" /\ reqs[r].result.code = 500
    /\ \A k \in DOMAIN geofences : Len(geofences[k].center) = 2
    /\ \E u \in Users : Recorded(userStates, u) = "inside"

\* latitude in [-90, 90] and longitude in [-180, 180]
WellFormedCoordinate(location) ==
    /\ location.kind = "array" /\ Len(location.elems) = 2
    /\ location.elems[1] >= -90 /\ location.elems[1] <= 90
    /\ location.elems[2] >= -180 /\ location.elems[2] <= 180

\* C6: a call whose point is not a well-formed Coordinate is answered with the
\* validation error (400) in its first step and changes no recorded state.
C6_IllFormedPointRejected ==
    [][\A r \in Reqs :
          LET location == IF reqs[r].pc = "idle" THEN reqs'[r].location
                          ELSE reqs[r].location
          IN reqs'[r] # reqs[r] /\ ~WellFormedCoordinate(location) =>
                /\ reqs[r].pc = "idle" /\ reqs'[r].pc = "done"
                /\ reqs'[r].result.code = 400
                /\ userStates' = userStates]_vars

\* the status returned by the last successful report before request r
StatusBefore(r) ==
    LET S == {q \in Reqs : q < r /\ Succeeded(q)}
    IN IF S = {} THEN "unknown"
       ELSE reqs[CHOOSE q \in S : \A p \in S : p <= q].result.status

\* C7: for one user reporting sequentially, a report's trigger is "enter"
\* exactly when the point is inside some fence and the previous report's status
\* was not "inside" (or there was none), "exit" exactly when the point is
\* inside no fence and the previous status was "inside", and "none" otherwise.
C7_SequentialClassification ==
    [][\A r \in Reqs :
          Completes(r) /\ reqs'[r].result.code = 200 =>
              LET inside == \E k \in DOMAIN reqs[r].data :
                               Contains(reqs[r].data[k], reqs[r].location.elems)
                  previous == StatusBefore(r)
              IN /\ reqs'[r].result.status = IF inside THEN "inside" ELSE "outside"
                 /\ reqs'[r].result.trigger = "enter" <=>
                       (inside /\ previous # "inside")
                 /\ reqs'[r].result.trigger = "exit" <=>
                       (~inside /\ previous = "inside")
                 /\ reqs'[r].result.trigger = "none" <=>
                       ~((inside /\ previous # "inside")
                         \/ (~inside /\ previous = "inside"))]_vars

\* the containment sequence outside, inside, inside, outside
\* has produced the triggers none, enter, none, exit
C7_Witness ==
    /\ \A r \in 1..4 : r \in Reqs /\ Succeeded(r)
    /\ [r \in 1..4 |-> reqs[r].result.status]
          = <<"outside", "inside", "inside", "outside">>
    /\ [r \in 1..4 |-> reqs[r].result.trigger]
          = <<"none", "enter", "none", "exit">>

\* the state updates of user u, in the order they were made
UpdatesBy(u) == SelectSeq(writes, LAMBDA e : e.userId = u)

\* C8: the calls of a user take effect as one sequential ordering: each call
\* observed as previous status the status returned by the call that wrote
\* just before it ("unknown" for the first), the recorded status is the one
\* returned by the call that wrote last, and there are no more "enter"
\* results than not-inside -> inside edges in that ordering.
C8_NoLostUpdate ==
    \A u \in Users :
        LET log == UpdatesBy(u)
            returned(k) == reqs[log[k].req].result.status
            previous(k) == IF k = 1 THEN "unknown" ELSE returned(k - 1)
            edges == {k \in DOMAIN log :
                         previous(k) # "inside" /\ returned(k) = "inside"}
            enters == {k \in DOMAIN log :
                         reqs[log[k].req].result.trigger = "enter"}
        IN /\ \A k \in DOMAIN log :
                 Succeeded(log[k].req) /\ log[k].read = previous(k)
           /\ Recorded(userStates, u) =
                 IF log = <<>> THEN "unknown" ELSE returned(Len(log))
           /\ Cardinality(enters) <= Cardinality(edges)
           /\ \A q, k \in DOMAIN log : q # k => log[q].req # log[k].req

\* two overlapping calls of one user, with an inside and an outside point:
\* the call that arrived second wrote first
C8_Witness ==
    /\ Len(writes) = 2
    /\ writes[1].userId = writes[2].userId
    /\ writes[1].req > writes[2].req
    /\ writes[1].after = "inside" /\ writes[2].after = "outside"
    /\ reqs[writes[2].req].result.trigger = "exit"

\* C9: a call that reports "enter" returns the id of the first fence, in the
\* order of the provider's answer, that contains the point; fences after it
\* are not consulted (a malformed one among them does not fail the call).
C9_FirstMatchWins ==
    [][\A r \in Reqs :
          reqs[r].pc = "fetched" /\ Completes(r) =>
              LET data == reqs[r].data
                  point == reqs[r].location.elems
                  first(k) == /\ Contains(data[k], point)
                              /\ \A j \in 1..(k - 1) :
                                    /\ Len(data[j].center) = 2
                                    /\ ~Contains(data[j], point)
              IN /\ reqs'[r].result.trigger = "enter" =>
                       \E k \in DOMAIN data :
                           first(k) /\ reqs'[r].result.fenceId = data[k].id
                 /\ (\E k \in DOMAIN data : first(k)) =>
                       reqs'[r].result.code = 200]_vars

\* the second stored fence was entered although the first one is well formed
\* and was part of the same answer: the first did not contain the point
C9_Witness ==
    /\ Len(geofences) >= 2
    /\ Len(geofences[1].center) = 2
    /\ geofences[1].userId = geofences[2].userId
    /\ \E r \in Reqs :
          /\ Succeeded(r) /\ reqs[r].result.trigger = "enter"
          /\ reqs[r].result.fenceId = geofences[2].id

\* C10: fenceId is non-null only with trigger "enter": results with "exit" or
\* "none" (and errors) carry null, also when a fence matched; an "enter"
\* result carries the id of a fence of the provider's answer to that call.
C10_FenceIdOnlyOnEnter ==
    [][\A r \in Reqs :
          Completes(r) =>
              /\ reqs'[r].result.trigger # "enter" =>
                    reqs'[r].result.fenceId = NoFence
              /\ reqs'[r].result.trigger = "enter" =>
                    /\ reqs'[r].result.fenceId # NoFence
                    /\ \E k \in DOMAIN reqs[r].data :
                          reqs[r].data[k].id = reqs'[r].result.fenceId]_vars

\* an inside -> inside report matched a fence and returned no fenceId
C10_Witness ==
    \E i \in DOMAIN writes :
        /\ writes[i].before = "inside" /\ writes[i].after = "inside"
        /\ writes[i].matched # NoFence
        /\ reqs[writes[i].req].result.trigger = "none"
        /\ reqs[writes[i].req].result.fenceId = NoFence

\* C11: every call that awaits the fence lookup is eventually answered (a
\* bounded timeout ends a lookup the provider never answers).
C11_EveryCallCompletes ==
    \A r \in 1..MaxReqs : (reqs[r].pc = "awaiting") ~> (reqs[r].pc = "done")

\* C12: an empty list of fences is a valid answer: the call succeeds with
\* status "outside" and no fenceId, with trigger "exit" if the recorded status
\* was "inside" and "none" otherwise, and it records "outside".
C12_EmptyFenceListIsValid ==
    [][\A r \in Reqs :
          reqs[r].pc = "fetched" /\ reqs[r].data = <<>> /\ Completes(r) =>
              LET u == reqs[r].userId IN
              /\ reqs'[r].result.code = 200
              /\ reqs'[r].result.status = "outside"
              /\ reqs'[r].result.fenceId = NoFence
              /\ reqs'[r].result.trigger =
                    IF Recorded(userStates, u) = "inside" THEN "exit" ELSE "none"
              /\ Recorded(userStates', u) = "outside"]_vars

\* a user who owns no fence (so every answer to that user was empty) has
\* reported and is recorded "outside"
C12_Witness ==
    \E i \in DOMAIN writes :
        /\ \A k \in DOMAIN geofences : geofences[k].userId # writes[i].userId
        /\ writes[i].after = "outside"
        /\ Succeeded(writes[i].req)
        /\ reqs[writes[i].req].result.trigger = "none"
        /\ Recorded(userStates, writes[i].userId) = "outside"

\* C13: GET /geofences answers exactly the fences owned by the asking user,
\* in creation order: none of another user, none of the user's own missing.
C13_ListFencesOwnedOnly ==
    [][\A r \in Reqs :
          reqs[r].pc = "awaiting" /\ reqs'[r].pc = "fetched" =>
              LET u == reqs[r].userId
                  answer == reqs'[r].data
              IN /\ \A k \in DOMAIN answer :
                       /\ answer[k].userId = u
                       /\ \E j \in DOMAIN geofences : geofences[j] = answer[k]
                 /\ \A j \in DOMAIN geofences :
                       geofences[j].userId = u =>
                           \E k \in DOMAIN answer : answer[k] = geofences[j]
                 /\ \A k, l \in DOMAIN answer : k < l => answer[k].id < answer[l].id
                 /\ \A j, l \in DOMAIN geofences :
                       j < l => geofences[j].id < geofences[l].id]_vars

\* a user's fence is listed while an older fence of another user is stored
C13_Witness ==
    \E r \in Reqs :
        /\ reqs[r].pc = "fetched"
        /\ Len(reqs[r].data) = 1
        /\ Len(geofences) = 2
        /\ geofences[1].userId # reqs[r].userId
        /\ geofences[2] = reqs[r].data[1]

\* the distance between a point and a fence's center, both on the prime meridian
MeridianDistance(fence, point) ==
    IF fence.center[1] >= point[1] THEN fence.center[1] - point[1]
    ELSE point[1] - fence.center[1]

\* C14: containment is a closed disk: a report is inside iff some fence of the
\* answer has its center at a distance less than or equal to its radius, and
\* the fence the loop matched is the first such fence; a point at distance
\* exactly the radius is inside, a point farther away is not.
C14_ClosedDisk ==
    [][\A r \in Reqs :
          reqs[r].pc = "fetched" /\ Completes(r) /\ reqs'[r].result.code = 200 =>
              LET data == reqs[r].data
                  point == reqs[r].location.elems
                  near == {k \in DOMAIN data :
                              MeridianDistance(data[k], point) <= data[k].radius}
                  update == writes'[Len(writes')]
              IN /\ update.req = r
                 /\ reqs'[r].result.status = "inside" <=> near # {}
                 /\ reqs'[r].result.status = "outside" <=> near = {}
                 /\ near # {} =>
                       \E k \in near : /\ update.matched = data[k].id
                                       /\ \A j \in near : k <= j
                 /\ near = {} => update.matched = NoFence]_vars

\* a point at distance exactly the radius (and not at the center) entered
C14_Witness ==
    \E i \in DOMAIN writes, k \in DOMAIN geofences :
        /\ writes[i].matched = geofences[k].id
        /\ writes[i].after = "inside"
        /\ MeridianDistance(geofences[k], writes[i].point) = geofences[k].radius
        /\ geofences[k].radius > 1

\* C15: the read of the previous status and the write of the new one are one
\* step per user: every call read the status that was recorded immediately
\* before its own write, so of two successive updates of a user at most one
\* fires "enter".
C15_ReadAndWriteIndivisible ==
    /\ \A i \in DOMAIN writes : writes[i].read = writes[i].before
    /\ \A u \in Users :
          LET log == UpdatesBy(u)
          IN \A k \in DOMAIN log :
                k > 1 =>
                    /\ log[k].before = log[k - 1].after
                    /\ ~(/\ reqs[log[k - 1].req].result.trigger = "enter"
                         /\ reqs[log[k].req].result.trigger = "enter")

\* two overlapping reports of one user, both inside a fence: the one that
\* wrote first fired "enter", the other "none"
C15_Witness ==
    /\ Len(writes) = 2
    /\ writes[1].userId = writes[2].userId
    /\ writes[1].req > writes[2].req
    /\ writes[1].after = "inside" /\ writes[2].after = "inside"
    /\ reqs[writes[1].req].result.trigger = "enter"
    /\ reqs[writes[2].req].result.trigger = "none"

\* the calls of a user update the recorded state in the order they were issued
C16_IssueOrderIsWriteOrder ==
    \A i, j \in DOMAIN writes :
        i < j /\ writes[i].userId = writes[j].userId =>
            writes[i].req < writes[j].req

\* C16 (amended): a call of a user that was answered before another call of
\* that user was issued updates the recorded state before it, and every call is
\* classified against the status recorded by the latest update before its own;
\* calls that overlap take effect in the order their fence lookups return.
C16_AnsweredBeforeIssuedOrder ==
    /\ \A i, j \in DOMAIN writes :
          writes[i].req \in writes[j].answered => i < j
    /\ \A u \in Users :
          LET log == UpdatesBy(u)
          IN \A k \in DOMAIN log :
                /\ log[k].read = IF k = 1 THEN "unknown" ELSE log[k - 1].after
                /\ reqs[log[k].req].result.trigger =
                      IF log[k].after = "inside" /\ log[k].read # "inside"
                      THEN "enter"
                      ELSE IF log[k].after = "outside" /\ log[k].read = "inside"
                      THEN "exit" ELSE "none"

\* a call issued after the user's previous call was answered, classified
\* against the status that call wrote
C16_Witness ==
    /\ Len(writes) = 2
    /\ writes[1].userId = writes[2].userId
    /\ writes[1].req \in writes[2].answered
    /\ writes[1].after = "inside" /\ writes[2].after = "outside"
    /\ reqs[writes[2].req].result.trigger = "exit"

\* C17: "unknown" is only the initial status: a user is recorded "unknown"
\* exactly as long as no call has updated that user, only a user's first
\* update reads "unknown", and no call writes or returns "unknown".
C17_UnknownOnlyInitially ==
    /\ \A u \in Users :
          IF UpdatesBy(u) = <<>>
          THEN Recorded(userStates, u) = "unknown"
          ELSE Recorded(userStates, u) \in {"inside", "outside"}
    /\ \A i \in DOMAIN writes :
          /\ writes[i].after \in {"inside", "outside"}
          /\ reqs[writes[i].req].result.status \in {"inside", "outside"}
          /\ writes[i].read = "unknown" =>
                \A j \in 1..(i - 1) : writes[j].userId # writes[i].userId
    /\ \A r \in Reqs : Succeeded(r) => reqs[r].result.status # "unknown"

\* a user's second report read the "outside" written by the first
C17_Witness ==
    \E u \in Users :
        /\ Len(UpdatesBy(u)) = 2
        /\ UpdatesBy(u)[1].read = "unknown" /\ UpdatesBy(u)[1].after = "outside"
        /\ UpdatesBy(u)[2].read = "outside" /\ UpdatesBy(u)[2].after = "outside"

\* C18: a step of a call of user u, successful or not, leaves the recorded
\* status of every other user as it was; the answer it gets lists only u's
\* fences, and its trigger is determined by u's recorded status and whether
\* one of those fences contains the point.
C18_OtherUsersUntouched ==
    [][\A r \in Reqs :
          reqs'[r] # reqs[r] =>
              LET u == IF reqs[r].pc = "idle" THEN reqs'[r].userId
                       ELSE reqs[r].userId
                  data == reqs[r].data
                  inside == \E k \in DOMAIN data :
                               Contains(data[k], reqs[r].location.elems)
                  previous == Recorded(userStates, u)
              IN /\ \A v \in Users \ {u} :
                       Recorded(userStates', v) = Recorded(userStates, v)
                 /\ reqs[r].pc = "fetched" =>
                       /\ \A k \in DOMAIN data : data[k].userId = u
                       /\ reqs'[r].result.code = 200
                       /\ reqs'[r].result.trigger =
                             IF inside /\ previous # "inside" THEN "enter"
                             ELSE IF ~inside /\ previous = "inside" THEN "exit"
                             ELSE "none"]_vars

\* overlapping reports of two users, one recorded inside and one outside
C18_Witness ==
    /\ Len(writes) = 2
    /\ writes[1].userId # writes[2].userId
    /\ writes[1].req > writes[2].req
    /\ writes[1].after = "inside" /\ writes[2].after = "outside"
    /\ Recorded(userStates, writes[1].userId) = "inside"
    /\ Recorded(userStates, writes[2].userId) = "outside"
    /\ \E k \in DOMAIN geofences : geofences[k].userId = writes[2].userId

\* the "enter" and "exit" events of user u, in the order of the updates
EventsOf(u) ==
    SelectSeq(UpdatesBy(u),
              LAMBDA e : reqs[e.req].result.trigger \in {"enter", "exit"})

C20_UsernamesUnique ==
    /\ \A i, j \in DOMAIN users :
          i # j => users[i].username # users[j].username
    /\ \A k, l \in Regs :
          /\ k # l
          /\ regs[k].response.code = 201 /\ regs[l].response.code = 201
          => regs[k].response.username # regs[l].response.username

====
